---------------------------- MODULE Spec2Model ----------------------------
(***************************************************************************)
(* Greenhouse controller (src/Estufa.c, RP2040).                           *)
(*                                                                         *)
(* Three execution contexts share the globals of the file:                 *)
(*   - timer_callback, the 100 ms repeating-timer interrupt (sampling,     *)
(*     moving average, photoperiod accounting);                            *)
(*   - on_uart_rx, the UART receive interrupt (line assembly);             *)
(*   - main's super loop (command parser, actuators, telemetry).           *)
(* An interrupt handler runs to completion, so each handler is one action. *)
(* The main context is a program counter `pc` that advances one statement  *)
(* (one access to interrupt-shared state) per step; the handlers may fire  *)
(* between any two of its steps.                                           *)
(*                                                                         *)
(* Characters are their ASCII codes.  All 32-bit quantities stay below     *)
(* 2^31 within the bounds explored (TLC integers are 32-bit).              *)
(***************************************************************************)
EXTENDS Integers, Sequences, FiniteSets, TLC

\* ------------------------------------------------------------------------
\* Bounds of the model (not program constants)
\* ------------------------------------------------------------------------
\* timer_callback invocations explored by the interleaved specification
MaxTicks == 20
\* timer_callback invocations explored by the filter specification
MaxTicksFilter == 40
\* changes of the analog inputs during a run of the filter specification
MaxSensorChanges == 1
\* most bytes one on_uart_rx invocation finds in the receive FIFO
MaxBurst == 2

\* ------------------------------------------------------------------------
\* Program constants
\* ------------------------------------------------------------------------
FAN_PIN == 6
PUMP_PIN == 2
LED_PIN == 9
AVG_SHIFT_BITS == 5
AVG_SAMPLES == 2 ^ AVG_SHIFT_BITS
TIMER_ISR_INTERVAL_MS == 100
RX_BUFFER_SIZE == 100
\* LONG_MAX of the target (32-bit long and int)
LONG_MAX == 2147483647

\* ASCII
NUL == 0
LF == 10
CR == 13
COMMA == 44

\* ------------------------------------------------------------------------
\* Integer helpers
\* ------------------------------------------------------------------------
\* (uint16_t)x
U16(x) == x % 65536

\* x >> n on a non-negative value
Shr(x, n) == x \div (2 ^ n)

Min(a, b) == IF a < b THEN a ELSE b

RECURSIVE SumSeq(_)
SumSeq(s) == IF s = <<>> THEN 0 ELSE Head(s) + SumSeq(Tail(s))

\* the last n elements of s (all of s when it is shorter)
\* A uint32_t is held as the integer with the same 32-bit pattern in two's
\* complement: v itself below 2^31, v - 2^32 from 2^31 up.  The sum and the
\* difference below are those of C, modulo 2^32; k is 0 .. 2^31 - 1.
Add32(a, k) ==
    IF a > LONG_MAX - k THEN ((a - LONG_MAX) + (k - LONG_MAX)) - 2 ELSE a + k

Sub32(a, b) ==
    IF b >= 0
    THEN IF a < (0 - LONG_MAX - 1) + b
         THEN ((a + LONG_MAX) + (LONG_MAX - b)) + 2 ELSE a - b
    ELSE IF a > LONG_MAX + b
         THEN ((a - LONG_MAX) - (b + LONG_MAX)) - 2 ELSE a - b

\* a >= b as unsigned 32-bit values
Ge32(a, b) == IF (a < 0) = (b < 0) THEN a >= b ELSE a < 0

LastN(s, n) == IF Len(s) <= n THEN s ELSE SubSeq(s, Len(s) - n + 1, Len(s))

VARIABLES
    \* --- moving-average filter (static in Estufa.c) ---
    ldr_buffer, ntc_buffer, umidade_buffer, avg_idx,
    ldr_sum, ntc_sum, umidade_sum,
    \* --- published filtered values ---
    g_ldr_filtrado, g_ntc_filtrado, g_umidade_filtrada,
    \* --- configuration ---
    g_umidade_setpoint_raw, g_temp_setpoint_raw, g_ldr_limiar_raw,
    g_fotoperiodo_ativo, g_meta_luz_segundos,
    \* --- photoperiod accounting ---
    g_segundos_de_luz_hoje, g_contador_1s,
    \* --- UART receive buffer ---
    g_rx_buffer, g_rx_idx, g_comando_pronto,
    \* --- output pins: gpio[pin] \in {0,1} ---
    gpio,
    \* --- main(): position and locals ---
    pc, ultimo_envio, packet, pkt_i, led_val,
    \* --- environment ---
    adc,        \* adc[ch]: the level adc_read() returns for channel ch
    wire,       \* the bytes the host sends over the whole run
    rx_pos,     \* how many of them on_uart_rx has consumed
    now_ms,     \* to_ms_since_boot, as a 32-bit pattern (see Add32)
    uart_tx,    \* the last frame handed to uart_write_blocking
    wdt_kicks,  \* watchdog_update calls so far
    envios,     \* log of the frames: ticks at the decision and at the write
    voltas,     \* passes of the super loop completed since the last tick (0, 1)
    \* --- history (observers, never read by the program) ---
    ticks,      \* timer_callback invocations since boot (of the run observed)
    hist,       \* per invocation: raw samples, light present, light counter,
                \* published values
    inicio,     \* the published values and the light counter where hist starts
    mudancas,   \* changes of the analog inputs so far
    rx_sujo,    \* on_uart_rx stored into the buffer while the flag was set
    entrada,    \* snapshot taken when processa_comando is entered
    escritores  \* per shared variable, the contexts that have changed it

filterVars == <<ldr_buffer, ntc_buffer, umidade_buffer, avg_idx,
                ldr_sum, ntc_sum, umidade_sum,
                g_ldr_filtrado, g_ntc_filtrado, g_umidade_filtrada>>
configVars == <<g_umidade_setpoint_raw, g_temp_setpoint_raw, g_ldr_limiar_raw,
                g_fotoperiodo_ativo, g_meta_luz_segundos>>
fotoVars   == <<g_segundos_de_luz_hoje, g_contador_1s>>
rxVars     == <<g_rx_buffer, g_rx_idx, g_comando_pronto>>
mainVars   == <<pc, ultimo_envio, packet, pkt_i, led_val>>
envVars    == <<adc, wire, rx_pos, now_ms, uart_tx, wdt_kicks, envios,
                voltas>>
histVars   == <<ticks, hist, inicio, mudancas, rx_sujo, entrada>>

vars == <<filterVars, configVars, fotoVars, rxVars, gpio, mainVars, envVars,
          histVars, escritores>>

\* The state the three contexts (timer interrupt, receive interrupt, main)
\* have in the globals and the pins, by group.
Partilhadas ==
    [filtro     |-> <<ldr_buffer, ntc_buffer, umidade_buffer, avg_idx,
                      ldr_sum, ntc_sum, umidade_sum>>,
     filtrados  |-> <<g_ldr_filtrado, g_ntc_filtrado, g_umidade_filtrada>>,
     config     |-> <<g_umidade_setpoint_raw, g_temp_setpoint_raw,
                      g_ldr_limiar_raw, g_fotoperiodo_ativo,
                      g_meta_luz_segundos>>,
     segundos   |-> g_segundos_de_luz_hoje,
     contador   |-> g_contador_1s,
     rx_buffer  |-> g_rx_buffer,
     rx_idx     |-> g_rx_idx,
     pronto     |-> g_comando_pronto,
     pinos      |-> gpio]

\* The observer of writes: the step under way is one of context ctx
Registo(ctx) ==
    escritores' = [v \in DOMAIN Partilhadas |->
                      IF Partilhadas'[v] # Partilhadas[v]
                      THEN escritores[v] \cup {ctx} ELSE escritores[v]]

Config == [umidade |-> g_umidade_setpoint_raw, temp |-> g_temp_setpoint_raw,
           ldr |-> g_ldr_limiar_raw, foto |-> g_fotoperiodo_ativo,
           meta |-> g_meta_luz_segundos]

\* ------------------------------------------------------------------------
\* Inputs explored
\* ------------------------------------------------------------------------
\* ADC levels <<light, temperature, moisture>> (12-bit codes), as a function
\* of the channel number.  With a zero history a constant level r gives the
\* filtered value floor(k * r / 32) after k samples: 3199, 3200 and 3202
\* give 1999, 2000 and 2001 after 20; 3950 gives 1234 after 10; 2560 gives
\* 1600 after 20.
Levels(l, n, u) == [ch \in 0..2 |-> CASE ch = 0 -> l [] ch = 1 -> n
                                      [] OTHER -> u]

\* The levels the analog inputs take in the filter specification
AdcScenarios == {Levels(4095, 2560, 3950), Levels(3200, 4095, 0),
                 Levels(0, 1000, 2000)}

\* The decimal text of n >= 0, as the host writes a value
RECURSIVE Dec(_)
Dec(n) == IF n < 10 THEN <<48 + n>> ELSE Dec(n \div 10) \o <<48 + (n % 10)>>

\* Command texts
TXT_SET_HUMID    == <<83, 69, 84, 44, 72, 85, 77, 73, 68, 44>>
TXT_SET_TEMP     == <<83, 69, 84, 44, 84, 69, 77, 80, 44>>
TXT_SET_LDR      == <<83, 69, 84, 44, 76, 68, 82, 44>>
TXT_SET_FOTO     == <<83, 69, 84, 44, 70, 79, 84, 79, 44>>
TXT_SET_META_LUZ == <<83, 69, 84, 44, 77, 69, 84, 65, 95, 76, 85, 90, 44>>
TXT_RESET_TIMER  == <<82, 69, 83, 69, 84, 44, 84, 73, 77, 69, 82, 95, 76, 85,
                      90>>

\* Configuration at boot
Defaults == [umidade |-> 3000, temp |-> 1600, ldr |-> 2000, foto |-> FALSE,
             meta |-> 14 * 3600]

\* Runs of the control specification: the analog levels, and the
\* configuration the host has set by the time of the first timer tick (a
\* command line takes about 15 ms at 9600 baud, the first tick comes at
\* 100 ms).
CenariosCtl ==
    { [adc |-> Levels(3200, 2560, 3950),
       cfg |-> [Defaults EXCEPT !.umidade = 1234]],
      [adc |-> Levels(4095, 1000, 0),
       cfg |-> [Defaults EXCEPT !.foto = TRUE]],
      [adc |-> Levels(3202, 4095, 4095),
       cfg |-> Defaults],
      [adc |-> Levels(3199, 0, 2000),
       cfg |-> [Defaults EXCEPT !.foto = TRUE, !.meta = 1]],
      [adc |-> Levels(4095, 0, 0),
       cfg |-> [Defaults EXCEPT !.foto = TRUE, !.meta = 2]] }

\* What the host sends in a run of the receive specification.  "R" (82)
\* after a terminator is the first byte of a following line; the last
\* stream is two lines back to back.
Wires ==
    { TXT_SET_FOTO \o Dec(1) \o <<LF>>,
      TXT_SET_HUMID \o Dec(1234) \o <<CR, LF, 82>>,
      TXT_SET_TEMP \o Dec(2000) \o <<LF>>,
      TXT_SET_LDR \o Dec(1000) \o <<LF>>,
      TXT_SET_META_LUZ \o Dec(1) \o <<LF>>,
      TXT_RESET_TIMER \o <<LF>>,
      TXT_SET_LDR \o Dec(5) \o <<LF>> \o TXT_SET_FOTO \o Dec(1) \o <<LF>> }

\* Values and value texts of the parser specification
Vals16 == {0, 1234, 65535}

TXT_2147483648 == <<50, 49, 52, 55, 52, 56, 51, 54, 52, 56>>
TXT_4294967295 == <<52, 50, 57, 52, 57, 54, 55, 50, 57, 53>>

\* decimal texts of values in 0 .. 2^32 - 1
Textos32 == {Dec(0), Dec(90000), Dec(LONG_MAX), TXT_2147483648,
             TXT_4294967295}

\* signed decimal texts with the integer each denotes
TextosFoto == { [txt |-> Dec(1), v |-> 1], [txt |-> Dec(0), v |-> 0],
                [txt |-> Dec(2), v |-> 2], [txt |-> Dec(65536), v |-> 65536],
                [txt |-> Dec(65537), v |-> 65537],
                [txt |-> <<45>> \o Dec(65535), v |-> 0 - 65535] }

\* The lines of the command table, with a numeric value
LinhasValidas ==
    {TXT_SET_HUMID \o Dec(v) : v \in Vals16}
    \cup {TXT_SET_TEMP \o Dec(v) : v \in Vals16}
    \cup {TXT_SET_LDR \o Dec(v) : v \in Vals16}
    \cup {TXT_SET_FOTO \o t.txt : t \in TextosFoto}
    \cup {TXT_SET_META_LUZ \o t : t \in Textos32}
    \cup {TXT_RESET_TIMER}

\* Other lines: no command at all; a command with a non-numeric or missing
\* value; a command inside other text; two commands in one line.
LinhasOutras ==
    { <<72, 69, 76, 76, 79>>,                                 \* HELLO
      <<83, 69, 84, 44, 70, 79, 79, 44, 53>>,                 \* SET,FOO,5
      <<115, 101, 116, 44, 104, 117, 109, 105, 100, 44, 53>>, \* set,humid,5
      <<82, 69, 83, 69, 84>>,                                 \* RESET
      TXT_SET_HUMID \o <<97, 98, 99>>,                        \* SET,HUMID,abc
      TXT_SET_LDR,                                            \* SET,LDR,
      <<88>> \o TXT_SET_TEMP \o Dec(7),                       \* XSET,TEMP,7
      <<88>> \o TXT_RESET_TIMER \o <<88>>,                    \* XRESET,TIMER_LUZX
      TXT_SET_TEMP \o TXT_SET_HUMID \o Dec(5),       \* SET,TEMP,SET,HUMID,5
      TXT_SET_LDR \o Dec(5) \o <<COMMA>> \o TXT_RESET_TIMER }
                                                  \* SET,LDR,5,RESET,TIMER_LUZ

LinhasCmd == LinhasValidas \cup LinhasOutras

\* A configuration other than the default
OutraConfig == [umidade |-> 1111, temp |-> 2222, ldr |-> 3333, foto |-> TRUE,
                meta |-> 4444]

\* Seconds the controller has run when the line of the parser specification
\* arrives
SegundosAntes == {0, 2}

\* ------------------------------------------------------------------------
\* Timer interrupt: timer_callback
\* ------------------------------------------------------------------------
\* adc_select_input(ch); adc_read()
adc_read(ch) == adc[ch]

\* gpio_get(pin)
gpio_get(pin) == gpio[pin]

\* Faulty variant: the sample leaving the window is not subtracted
RunningSum_NoSub(sum, buffer, raw) == sum + raw

\* sum = sum - buffer[avg_idx] + raw
RunningSum(sum, buffer, raw) == sum - buffer[avg_idx] + raw

\* (uint16_t)(sum >> AVG_SHIFT_BITS)
Filtrado(sum) == U16(Shr(sum, AVG_SHIFT_BITS))

\* Faulty variant: the write index skips a slot
NextIdx_Skip(i) == (i + 2) % AVG_SAMPLES

\* avg_idx = (avg_idx + 1) % AVG_SAMPLES
NextIdx(i) == (i + 1) % AVG_SAMPLES

\* Faulty variant: the boundary comes one tick early
UmSegundo_Nine(contador) == contador + 1 >= 9

\* g_contador_1s++; if (g_contador_1s >= 10): the 1-second boundary
UmSegundo(contador) == contador + 1 >= 10

\* Faulty variant: a reading equal to the threshold does not count as light
tem_sol_Strict(ldr, limiar) == ldr < limiar

\* bool tem_sol = (g_ldr_filtrado <= g_ldr_limiar_raw)
tem_sol(ldr, limiar) == ldr <= limiar

\* Faulty variant: light counts only with the lamp on and the sun out
HaLuz_Both(led_ligado, sol) == led_ligado /\ sol

\* if (led_ligado || tem_sol)
HaLuz(led_ligado, sol) == led_ligado \/ sol

timer_callback ==
    LET ldr_raw     == adc_read(0)
        ntc_raw     == adc_read(1)
        umidade_raw == adc_read(2)
        ldr_s       == RunningSum(ldr_sum, ldr_buffer, ldr_raw)
        ntc_s       == RunningSum(ntc_sum, ntc_buffer, ntc_raw)
        umidade_s   == RunningSum(umidade_sum, umidade_buffer, umidade_raw)
        ldr_f       == Filtrado(ldr_s)
        led_ligado  == gpio_get(LED_PIN) = 1
        sol         == tem_sol(ldr_f, g_ldr_limiar_raw)
        seg         == IF UmSegundo(g_contador_1s) /\ HaLuz(led_ligado, sol)
                       THEN g_segundos_de_luz_hoje + 1
                       ELSE g_segundos_de_luz_hoje
    IN  /\ ldr_sum' = ldr_s
        /\ ntc_sum' = ntc_s
        /\ umidade_sum' = umidade_s
        /\ ldr_buffer' = [ldr_buffer EXCEPT ![avg_idx] = ldr_raw]
        /\ ntc_buffer' = [ntc_buffer EXCEPT ![avg_idx] = ntc_raw]
        /\ umidade_buffer' = [umidade_buffer EXCEPT ![avg_idx] = umidade_raw]
        /\ g_ldr_filtrado' = ldr_f
        /\ g_ntc_filtrado' = Filtrado(ntc_s)
        /\ g_umidade_filtrada' = Filtrado(umidade_s)
        /\ avg_idx' = NextIdx(avg_idx)
        /\ g_contador_1s' = IF UmSegundo(g_contador_1s) THEN 0
                            ELSE g_contador_1s + 1
        /\ g_segundos_de_luz_hoje' = seg
        /\ ticks' = ticks + 1
        /\ hist' = Append(hist, [raw |-> <<ldr_raw, ntc_raw, umidade_raw>>,
                                 luz |-> HaLuz(led_ligado, sol),
                                 seg |-> seg,
                                 filt |-> <<ldr_f, Filtrado(ntc_s),
                                            Filtrado(umidade_s)>>])

\* The repeating timer fires every TIMER_ISR_INTERVAL_MS of the clock that
\* to_ms_since_boot reads.
TimerIRQ(limite) ==
    /\ ticks < limite
    /\ timer_callback
    /\ now_ms' = Add32(now_ms, TIMER_ISR_INTERVAL_MS)
    /\ voltas' = 0
    /\ UNCHANGED <<configVars, rxVars, gpio, mainVars, adc, wire, rx_pos,
                   uart_tx, wdt_kicks, envios, inicio, mudancas, rx_sujo,
                   entrada>>
    /\ Registo("timer")

\* The analog inputs move (filter specification only): all three channels
\* take the levels of another scenario.
SensorChange(limite) ==
    /\ mudancas < limite
    /\ \E a \in AdcScenarios : a # adc /\ adc' = a
    /\ mudancas' = mudancas + 1
    /\ UNCHANGED <<filterVars, configVars, fotoVars, rxVars, gpio, mainVars,
                   wire, rx_pos, now_ms, uart_tx, wdt_kicks, envios, voltas,
                   ticks,
                   hist, inicio, rx_sujo, entrada, escritores>>

\* ------------------------------------------------------------------------
\* UART receive interrupt: on_uart_rx
\* ------------------------------------------------------------------------
\* One pass of the while loop for the character c; st = [buf, idx, pronto,
\* sujo], sujo recording a store into the buffer made while the ready flag
\* was set.
RxTerminator(st) ==
    IF st.idx > 0
    THEN [st EXCEPT !.buf = [st.buf EXCEPT ![st.idx] = NUL],
                    !.pronto = TRUE,
                    !.idx = 0,
                    !.sujo = st.sujo \/ st.pronto]
    ELSE st

\* Faulty variant: the last byte of the buffer is used for data too
RxHasRoom_Full(idx) == idx < RX_BUFFER_SIZE

\* else if (g_rx_idx < (RX_BUFFER_SIZE - 1))
RxHasRoom(idx) == idx < RX_BUFFER_SIZE - 1

RxData(st, c) ==
    IF RxHasRoom(st.idx)
    THEN [st EXCEPT !.buf = [st.buf EXCEPT ![st.idx] = c],
                    !.idx = st.idx + 1,
                    !.sujo = st.sujo \/ st.pronto]
    ELSE st

RxChar(st, c) == IF c = LF \/ c = CR THEN RxTerminator(st) ELSE RxData(st, c)

\* while (uart_is_readable(UART_ID)) over the bytes found in the FIFO
RECURSIVE RxLoop(_, _)
RxLoop(st, bytes) ==
    IF bytes = <<>> THEN st ELSE RxLoop(RxChar(st, Head(bytes)), Tail(bytes))

on_uart_rx(bytes) ==
    LET st == RxLoop([buf |-> g_rx_buffer, idx |-> g_rx_idx,
                      pronto |-> g_comando_pronto, sujo |-> rx_sujo], bytes)
    IN  /\ g_rx_buffer' = st.buf
        /\ g_rx_idx' = st.idx
        /\ g_comando_pronto' = st.pronto
        /\ rx_sujo' = st.sujo

\* The interrupt fires with the next 1..MaxBurst bytes of the wire in the
\* receive FIFO and the handler drains them.
UartIRQ ==
    /\ rx_pos < Len(wire)
    /\ \E n \in 1..Min(MaxBurst, Len(wire) - rx_pos) :
          /\ on_uart_rx(SubSeq(wire, rx_pos + 1, rx_pos + n))
          /\ rx_pos' = rx_pos + n
    /\ UNCHANGED <<filterVars, configVars, fotoVars, gpio, mainVars, adc,
                   wire, now_ms, uart_tx, wdt_kicks, envios, voltas, ticks,
                   hist, inicio,
                   mudancas, entrada>>
    /\ Registo("rx")

\* ------------------------------------------------------------------------
\* C strings over the receive buffer
\* ------------------------------------------------------------------------
\* The string a const char* to g_rx_buffer + i denotes: the bytes before the
\* first NUL.  Index RX_BUFFER_SIZE - 1 is never stored to by on_uart_rx, so
\* the scan ends inside the buffer.
RECURSIVE CStrFrom(_, _)
CStrFrom(buf, i) ==
    IF i >= RX_BUFFER_SIZE \/ buf[i] = NUL THEN <<>>
    ELSE <<buf[i]>> \o CStrFrom(buf, i + 1)

CStr(buf) == CStrFrom(buf, 0)

\* strstr(hay, needle) != NULL
strstr(hay, needle) ==
    \E i \in 1..(Len(hay) - Len(needle) + 1) :
        SubSeq(hay, i, i + Len(needle) - 1) = needle

\* Faulty variant: the first c in hay instead of the last
strchr_First(hay, c) ==
    LET at == {i \in 1..Len(hay) : hay[i] = c}
    IN  IF at = {} THEN 0 ELSE CHOOSE i \in at : \A j \in at : i <= j

\* strrchr(hay, c): the 1-based position of the last c in hay, 0 for NULL
strrchr(hay, c) ==
    LET at == {i \in 1..Len(hay) : hay[i] = c}
    IN  IF at = {} THEN 0 ELSE CHOOSE i \in at : \A j \in at : j <= i

\* the text after position p of s (valor_str + 1)
After(s, p) == SubSeq(s, p + 1, Len(s))

IsSpace(c) == c = 32 \/ (c >= 9 /\ c <= 13)
IsDigit(c) == c >= 48 /\ c <= 57

\* The digits of strtol: acc is the magnitude so far, clamped at LONG_MAX
\* once it would pass it (strtol's cutoff test, before the multiplication).
RECURSIVE StrtolDigits(_, _)
StrtolDigits(s, acc) ==
    IF s = <<>> \/ ~IsDigit(Head(s)) THEN acc
    ELSE LET d == Head(s) - 48
             over == \/ acc > LONG_MAX \div 10
                     \/ (acc = LONG_MAX \div 10 /\ d > LONG_MAX % 10)
         IN  StrtolDigits(Tail(s), IF over THEN LONG_MAX ELSE acc * 10 + d)

RECURSIVE SkipSpace(_)
SkipSpace(s) == IF s # <<>> /\ IsSpace(Head(s)) THEN SkipSpace(Tail(s)) ELSE s

\* atol(s) and atoi(s) (int and long have the same width): strtol(s, NULL,
\* 10).  Leading white space, an optional sign, then decimal digits up to
\* the first other character; 0 when there is no digit.  A value beyond
\* LONG_MAX is undefined in ISO C; the C library of the build returns
\* LONG_MAX (-LONG_MAX here for the negative side, one above LONG_MIN).
atol(s) ==
    LET t == SkipSpace(s)
    IN  IF t = <<>> THEN 0
        ELSE IF Head(t) = 45 THEN 0 - StrtolDigits(Tail(t), 0)
        ELSE IF Head(t) = 43 THEN StrtolDigits(Tail(t), 0)
        ELSE StrtolDigits(t, 0)

atoi(s) == atol(s)

\* ------------------------------------------------------------------------
\* Main context: processa_comando
\* ------------------------------------------------------------------------
PAT_SET_HUMID    == <<83, 69, 84, 44, 72, 85, 77, 73, 68, 44>>
PAT_SET_TEMP     == <<83, 69, 84, 44, 84, 69, 77, 80, 44>>
PAT_SET_LDR      == <<83, 69, 84, 44, 76, 68, 82, 44>>
PAT_SET_FOTO     == <<83, 69, 84, 44, 70, 79, 84, 79, 44>>
PAT_SET_META_LUZ == <<83, 69, 84, 44, 77, 69, 84, 65, 95, 76, 85, 90, 44>>
PAT_RESET_TIMER  == <<82, 69, 83, 69, 84, 44, 84, 73, 77, 69, 82, 95, 76, 85,
                      90>>

\* What the main context leaves alone in every step of processa_comando
\* except the variables a step names.
CmdFrame ==
    /\ UNCHANGED <<filterVars, g_contador_1s, g_rx_idx, gpio, ultimo_envio,
                   packet, pkt_i, led_val, envVars, ticks, hist, inicio,
                   mudancas, rx_sujo>>
    /\ Registo("main")

\* One else-if of the chain: strstr on the buffer as it is now.
Match(here, pattern, found, next) ==
    /\ pc = here
    /\ pc' = IF strstr(CStr(g_rx_buffer), pattern) THEN found ELSE next
    /\ UNCHANGED <<configVars, g_segundos_de_luz_hoje, g_rx_buffer,
                   g_comando_pronto, entrada>>
    /\ CmdFrame

\* valor_str = strrchr(g_rx_buffer, ','); valor_str + 1 when it is not NULL
ValorStr(buf) ==
    LET s == CStr(buf)
        p == strrchr(s, COMMA)
    IN  [ok |-> p # 0, txt |-> After(s, p)]

\* (uint16_t)atoi(valor_str + 1)
Valor16(txt) == U16(atoi(txt))

\* ((uint16_t)atoi(valor_str + 1) == 1)
ValorFoto(txt) == U16(atoi(txt)) = 1

\* (uint32_t)atol(valor_str + 1), for the non-negative values explored
Valor32(txt) == atol(txt)

\* if (g_comando_pronto) processa_comando();
M214 ==
    /\ pc = "m214"
    /\ pc' = IF g_comando_pronto THEN "p143" ELSE "m218"
    /\ entrada' = IF g_comando_pronto
                  THEN [linha |-> CStr(g_rx_buffer), cfg |-> Config,
                        seg |-> g_segundos_de_luz_hoje]
                  ELSE entrada
    /\ UNCHANGED <<configVars, g_segundos_de_luz_hoje, g_rx_buffer,
                   g_comando_pronto>>
    /\ CmdFrame

\* g_comando_pronto = false;
P143 ==
    /\ pc = "p143"
    /\ pc' = "p147"
    /\ g_comando_pronto' = FALSE
    /\ UNCHANGED <<configVars, g_segundos_de_luz_hoje, g_rx_buffer, entrada>>
    /\ CmdFrame

P147 == Match("p147", PAT_SET_HUMID, "p148", "p151")

P148 ==
    /\ pc = "p148"
    /\ pc' = "p171"
    /\ LET v == ValorStr(g_rx_buffer)
       IN  g_umidade_setpoint_raw' =
               IF v.ok THEN Valor16(v.txt) ELSE g_umidade_setpoint_raw
    /\ UNCHANGED <<g_temp_setpoint_raw, g_ldr_limiar_raw, g_fotoperiodo_ativo,
                   g_meta_luz_segundos, g_segundos_de_luz_hoje, g_rx_buffer,
                   g_comando_pronto, entrada>>
    /\ CmdFrame

P151 == Match("p151", PAT_SET_TEMP, "p152", "p155")

P152 ==
    /\ pc = "p152"
    /\ pc' = "p171"
    /\ LET v == ValorStr(g_rx_buffer)
       IN  g_temp_setpoint_raw' =
               IF v.ok THEN Valor16(v.txt) ELSE g_temp_setpoint_raw
    /\ UNCHANGED <<g_umidade_setpoint_raw, g_ldr_limiar_raw,
                   g_fotoperiodo_ativo, g_meta_luz_segundos,
                   g_segundos_de_luz_hoje, g_rx_buffer, g_comando_pronto,
                   entrada>>
    /\ CmdFrame

P155 == Match("p155", PAT_SET_LDR, "p156", "p159")

P156 ==
    /\ pc = "p156"
    /\ pc' = "p171"
    /\ LET v == ValorStr(g_rx_buffer)
       IN  g_ldr_limiar_raw' =
               IF v.ok THEN Valor16(v.txt) ELSE g_ldr_limiar_raw
    /\ UNCHANGED <<g_umidade_setpoint_raw, g_temp_setpoint_raw,
                   g_fotoperiodo_ativo, g_meta_luz_segundos,
                   g_segundos_de_luz_hoje, g_rx_buffer, g_comando_pronto,
                   entrada>>
    /\ CmdFrame

P159 == Match("p159", PAT_SET_FOTO, "p160", "p163")

P160 ==
    /\ pc = "p160"
    /\ pc' = "p171"
    /\ LET v == ValorStr(g_rx_buffer)
       IN  g_fotoperiodo_ativo' =
               IF v.ok THEN ValorFoto(v.txt) ELSE g_fotoperiodo_ativo
    /\ UNCHANGED <<g_umidade_setpoint_raw, g_temp_setpoint_raw,
                   g_ldr_limiar_raw, g_meta_luz_segundos,
                   g_segundos_de_luz_hoje, g_rx_buffer, g_comando_pronto,
                   entrada>>
    /\ CmdFrame

P163 == Match("p163", PAT_SET_META_LUZ, "p164", "p167")

P164 ==
    /\ pc = "p164"
    /\ pc' = "p171"
    /\ LET v == ValorStr(g_rx_buffer)
       IN  g_meta_luz_segundos' =
               IF v.ok THEN Valor32(v.txt) ELSE g_meta_luz_segundos
    /\ UNCHANGED <<g_umidade_setpoint_raw, g_temp_setpoint_raw,
                   g_ldr_limiar_raw, g_fotoperiodo_ativo,
                   g_segundos_de_luz_hoje, g_rx_buffer, g_comando_pronto,
                   entrada>>
    /\ CmdFrame

P167 == Match("p167", PAT_RESET_TIMER, "p168", "p171")

\* g_segundos_de_luz_hoje = 0;
ResetValue == 0

\* Faulty variant: the branch is taken but the counter is not stored
P168_NoStore ==
    /\ pc = "p168"
    /\ pc' = "p171"
    /\ UNCHANGED <<configVars, g_segundos_de_luz_hoje, g_rx_buffer,
                   g_comando_pronto, entrada>>
    /\ CmdFrame

\* Faulty variant: the reset also restarts the sub-second count
P168_Restart ==
    /\ pc = "p168"
    /\ pc' = "p171"
    /\ g_segundos_de_luz_hoje' = ResetValue
    /\ g_contador_1s' = 0
    /\ UNCHANGED <<configVars, g_rx_buffer, g_comando_pronto, entrada>>
    /\ UNCHANGED <<filterVars, g_rx_idx, gpio, ultimo_envio, packet, pkt_i,
                   led_val, envVars, ticks, hist, inicio, mudancas, rx_sujo>>
    /\ Registo("main")

P168 ==
    /\ pc = "p168"
    /\ pc' = "p171"
    /\ g_segundos_de_luz_hoje' = ResetValue
    /\ UNCHANGED <<configVars, g_rx_buffer, g_comando_pronto, entrada>>
    /\ CmdFrame

\* memset((void*)g_rx_buffer, 0, RX_BUFFER_SIZE)
Memset(buf) == [i \in 0..(RX_BUFFER_SIZE - 1) |-> NUL]

P171 ==
    /\ pc = "p171"
    /\ pc' = "m218"
    /\ g_rx_buffer' = Memset(g_rx_buffer)
    /\ UNCHANGED <<configVars, g_segundos_de_luz_hoje, g_comando_pronto,
                   entrada>>
    /\ CmdFrame

processa_comando ==
    \/ P143 \/ P147 \/ P148 \/ P151 \/ P152 \/ P155 \/ P156 \/ P159 \/ P160
    \/ P163 \/ P164 \/ P167 \/ P168 \/ P171

\* ------------------------------------------------------------------------
\* Main context: actuators
\* ------------------------------------------------------------------------
MainFrame ==
    /\ UNCHANGED <<filterVars, configVars, fotoVars, rxVars, envVars,
                   histVars>>
    /\ Registo("main")

\* Faulty variant: the pump also runs at the setpoint
PumpOn_AtSetpoint(umidade, setpoint) == umidade >= setpoint

\* if (g_umidade_filtrada > g_umidade_setpoint_raw)
PumpOn(umidade, setpoint) == umidade > setpoint

\* if (g_ntc_filtrado < g_temp_setpoint_raw)
FanOn(ntc, setpoint) == ntc < setpoint

\* Faulty variant: the light stays on when the counter equals the goal
FotoPendente_Inclusive(ativo, segundos, meta) == ativo /\ segundos <= meta

\* if (g_fotoperiodo_ativo && (g_segundos_de_luz_hoje < g_meta_luz_segundos))
FotoPendente(ativo, segundos, meta) == ativo /\ segundos < meta

\* if (g_ldr_filtrado > g_ldr_limiar_raw)
Escuro(ldr, limiar) == ldr > limiar

Bit(b) == IF b THEN 1 ELSE 0

\* gpio_put(pin, v)
gpio_put(pin, v) == gpio' = [gpio EXCEPT ![pin] = v]

M218 ==
    /\ pc = "m218"
    /\ pc' = "m219"
    /\ gpio_put(PUMP_PIN,
                Bit(PumpOn(g_umidade_filtrada, g_umidade_setpoint_raw)))
    /\ UNCHANGED <<ultimo_envio, packet, pkt_i, led_val>>
    /\ MainFrame

M219 ==
    /\ pc = "m219"
    /\ pc' = "m224"
    /\ gpio_put(FAN_PIN, Bit(FanOn(g_ntc_filtrado, g_temp_setpoint_raw)))
    /\ UNCHANGED <<ultimo_envio, packet, pkt_i, led_val>>
    /\ MainFrame

\* The outer condition of the grow-light policy; its else branch puts 0.
M224 ==
    /\ pc = "m224"
    /\ IF FotoPendente(g_fotoperiodo_ativo, g_segundos_de_luz_hoje,
                       g_meta_luz_segundos)
       THEN pc' = "m225" /\ led_val' = led_val
       ELSE pc' = "mled" /\ led_val' = 0
    /\ UNCHANGED <<gpio, ultimo_envio, packet, pkt_i>>
    /\ MainFrame

\* The inner condition: the filtered light is read and compared.
M225 ==
    /\ pc = "m225"
    /\ pc' = "mled"
    /\ led_val' = Bit(Escuro(g_ldr_filtrado, g_ldr_limiar_raw))
    /\ UNCHANGED <<gpio, ultimo_envio, packet, pkt_i>>
    /\ MainFrame

\* gpio_put(LED_PIN, ...) of the branch taken
MLed ==
    /\ pc = "mled"
    /\ pc' = "m233"
    /\ gpio_put(LED_PIN, led_val)
    /\ UNCHANGED <<ultimo_envio, packet, pkt_i, led_val>>
    /\ MainFrame

\* ------------------------------------------------------------------------
\* Main context: telemetry
\* ------------------------------------------------------------------------
\* agora - ultimo_envio, in uint32_t
Elapsed(a, b) == Sub32(a, b)

\* Faulty variant: the deadline is computed and compared, agora >=
\* ultimo_envio + 1000, which goes wrong when the sum wraps
TelemetryDue_Deadline(a, b) == Ge32(a, Add32(b, 1000))

\* if (agora - ultimo_envio >= 1000)
TelemetryDue(a, b) == Ge32(Elapsed(a, b), 1000)

Byte(x, shift) == Shr(x, shift) % 256

\* The right-hand sides of packet[0] .. packet[10]; each reads its volatile
\* operand once.
PacketByte(i) ==
    CASE i = 0  -> Byte(g_ldr_filtrado, 8)
      [] i = 1  -> Byte(g_ldr_filtrado, 0)
      [] i = 2  -> Byte(g_ntc_filtrado, 8)
      [] i = 3  -> Byte(g_ntc_filtrado, 0)
      [] i = 4  -> Byte(g_umidade_filtrada, 8)
      [] i = 5  -> Byte(g_umidade_filtrada, 0)
      [] i = 6  -> IF gpio_get(LED_PIN) # 0 THEN 1 ELSE 0
      [] i = 7  -> Byte(g_segundos_de_luz_hoje, 24)
      [] i = 8  -> Byte(g_segundos_de_luz_hoje, 16)
      [] i = 9  -> Byte(g_segundos_de_luz_hoje, 8)
      [] OTHER  -> Byte(g_segundos_de_luz_hoje, 0)

\* Faulty variant: the loop stops one byte early
Checksum_Ten(p) == SumSeq([i \in 1..10 |-> p[i - 1]]) % 256

\* uint8_t soma = 0; for (i = 0; i < 11; i++) soma += packet[i];
Checksum(p) == SumSeq([i \in 1..11 |-> p[i - 1]]) % 256

\* uint32_t agora = to_ms_since_boot(...); if (...) { ultimo_envio = agora;
M233 ==
    /\ pc = "m233"
    /\ IF TelemetryDue(now_ms, ultimo_envio)
       THEN /\ pc' = "pkt" /\ ultimo_envio' = now_ms /\ pkt_i' = 0
            /\ envios' = Append(envios, [decidido |-> ticks, enviado |-> -1,
                                         frame |-> <<>>])
       ELSE pc' = "m265" /\ UNCHANGED <<ultimo_envio, pkt_i, envios>>
    /\ UNCHANGED <<gpio, packet, led_val>>
    /\ UNCHANGED <<filterVars, configVars, fotoVars, rxVars, adc, wire,
                   rx_pos, now_ms, uart_tx, wdt_kicks, voltas, histVars>>
    /\ Registo("main")

\* packet[pkt_i] = ...;   (lines 239 to 250, one assignment per step)
MPacket ==
    /\ pc = "pkt"
    /\ packet' = [packet EXCEPT ![pkt_i] = PacketByte(pkt_i)]
    /\ pkt_i' = pkt_i + 1
    /\ pc' = IF pkt_i = 10 THEN "t253" ELSE "pkt"
    /\ UNCHANGED <<gpio, ultimo_envio, led_val>>
    /\ MainFrame

\* checksum, sentinel, uart_write_blocking(UART_ID, packet, 13),
\* watchdog_update()
T253 ==
    /\ pc = "t253"
    /\ pc' = "m265"
    /\ packet' = [packet EXCEPT ![11] = Checksum(packet), ![12] = 170]
    /\ uart_tx' = packet'
    /\ wdt_kicks' = wdt_kicks + 1
    /\ envios' = [envios EXCEPT ![Len(envios)] =
                     [@ EXCEPT !.enviado = ticks,
                               !.frame = [i \in 1..13 |-> packet'[i - 1]]]]
    /\ UNCHANGED <<gpio, ultimo_envio, pkt_i, led_val>>
    /\ UNCHANGED <<filterVars, configVars, fotoVars, rxVars, adc, wire,
                   rx_pos, now_ms, voltas, histVars>>
    /\ Registo("main")

\* sleep_ms(1); and back to the top of while (1)
M265 ==
    /\ pc = "m265"
    /\ pc' = "m214"
    /\ voltas' = 1
    /\ UNCHANGED <<gpio, ultimo_envio, packet, pkt_i, led_val>>
    /\ UNCHANGED <<filterVars, configVars, fotoVars, rxVars, adc, wire,
                   rx_pos, now_ms, uart_tx, wdt_kicks, envios, histVars>>
    /\ Registo("main")

\* ------------------------------------------------------------------------
\* Initial states and specifications
\* ------------------------------------------------------------------------
\* The state when the super loop is entered: globals as initialised, the
\* buffers cleared, the three outputs low.
Boot(cfg) ==
    /\ ldr_buffer = [i \in 0..(AVG_SAMPLES - 1) |-> 0]
    /\ ntc_buffer = [i \in 0..(AVG_SAMPLES - 1) |-> 0]
    /\ umidade_buffer = [i \in 0..(AVG_SAMPLES - 1) |-> 0]
    /\ avg_idx = 0
    /\ ldr_sum = 0 /\ ntc_sum = 0 /\ umidade_sum = 0
    /\ g_ldr_filtrado = 0 /\ g_ntc_filtrado = 0 /\ g_umidade_filtrada = 0
    /\ g_umidade_setpoint_raw = cfg.umidade
    /\ g_temp_setpoint_raw = cfg.temp
    /\ g_ldr_limiar_raw = cfg.ldr
    /\ g_fotoperiodo_ativo = cfg.foto
    /\ g_meta_luz_segundos = cfg.meta
    /\ g_segundos_de_luz_hoje = 0
    /\ g_contador_1s = 0
    /\ g_rx_buffer = [i \in 0..(RX_BUFFER_SIZE - 1) |-> NUL]
    /\ g_rx_idx = 0
    /\ g_comando_pronto = FALSE
    /\ gpio = [p \in {FAN_PIN, PUMP_PIN, LED_PIN} |-> 0]
    /\ pc = "m214"
    /\ ultimo_envio = 0
    /\ packet = [i \in 0..12 |-> 0]
    /\ pkt_i = 0
    /\ led_val = 0
    /\ rx_pos = 0
    /\ now_ms = 0
    /\ uart_tx = [i \in 0..12 |-> 0]
    /\ wdt_kicks = 0
    /\ envios = <<>>
    /\ voltas = 0
    /\ ticks = 0
    /\ hist = <<>>
    /\ inicio = [filt |-> <<0, 0, 0>>, seg |-> 0]
    /\ mudancas = 0
    /\ rx_sujo = FALSE
    /\ entrada = [linha |-> <<>>, cfg |-> cfg, seg |-> 0]
    /\ escritores = [v \in DOMAIN Partilhadas |-> {}]

Actuators == M218 \/ M219 \/ M224 \/ M225 \/ MLed

Telemetry == MPacket \/ T253

\* The sampling interrupt alone, under moving analog inputs.
InitFilter == Boot(Defaults) /\ adc \in AdcScenarios /\ wire = <<>>

NextFilter == TimerIRQ(MaxTicksFilter) \/ SensorChange(MaxSensorChanges)

SpecFilter == InitFilter /\ [][NextFilter]_vars

\* A pass of the super loop lasts at most the 1 ms sleep plus the 13-byte
\* blocking write (about 14 ms at 9600 baud), the timer period is 100 ms:
\* the loop completes a pass between two ticks.
TimerTick == voltas >= 1 /\ TimerIRQ(MaxTicks)

\* The timer interrupt against the super loop, no command arriving.
InitCtl == \E c \in CenariosCtl : Boot(c.cfg) /\ adc = c.adc /\ wire = <<>>

NextCtl == TimerTick \/ M214 \/ Actuators \/ M233 \/ Telemetry \/ M265

SpecCtl == InitCtl /\ [][NextCtl]_vars

\* The receive interrupt against the super loop, within the first timer
\* period (the clock reads 0, so no telemetry is due).
InitRx == Boot(Defaults) /\ adc = Levels(0, 0, 0) /\ wire \in Wires

NextRx == UartIRQ \/ M214 \/ processa_comando \/ Actuators \/ M233 \/ M265

SpecRx == InitRx /\ [][NextRx]_vars

\* The receive path at the capacity of the buffer: lines of 98, 99, 100 and
\* 110 characters (X is the filler), terminators on an empty line before
\* and after a line, and CR LF endings.
Pad(n) == [i \in 1..n |-> 88]

WiresBuf ==
    { Pad(89) \o TXT_SET_HUMID \o Dec(5) \o <<LF>>,
      Pad(89) \o TXT_SET_TEMP \o Dec(7) \o <<CR, LF>>,
      <<CR, LF>> \o TXT_SET_LDR \o Dec(5) \o <<LF, CR>>,
      TXT_SET_FOTO \o Dec(1) \o Pad(100) \o <<LF>>,
      <<LF>> \o TXT_SET_META_LUZ \o Dec(5) \o <<LF, LF>>,
      TXT_RESET_TIMER \o Pad(83) \o <<CR>> }

InitBuf == Boot(Defaults) /\ adc = Levels(0, 0, 0) /\ wire \in WiresBuf

SpecBuf == InitBuf /\ [][NextRx]_vars

\* The three contexts together: the timer and the receive interrupt against
\* the super loop, the light outside above the threshold (the counter
\* counts every second) and the daily goal set to 1 s, while the host sends
\* one command.
WiresAll ==
    { TXT_RESET_TIMER \o <<LF>>,
      TXT_SET_FOTO \o Dec(1) \o <<LF>>,
      TXT_SET_HUMID \o Dec(9) \o <<LF>>,
      TXT_SET_TEMP \o Dec(9) \o <<LF>>,
      TXT_SET_LDR \o Dec(9) \o <<LF>>,
      TXT_SET_META_LUZ \o Dec(2) \o <<LF>> }

InitAll == /\ Boot([Defaults EXCEPT !.meta = 1])
           /\ adc = Levels(0, 0, 0)
           /\ wire \in WiresAll

NextAll == \/ TimerTick \/ UartIRQ \/ M214 \/ processa_comando \/ Actuators
           \/ M233 \/ Telemetry \/ M265

SpecAll == InitAll /\ [][NextAll]_vars

\* processa_comando as a function of the buffer, the configuration and the
\* light counter.  The state it is applied in: the host configured cfg
\* within the first timer period, the controller then ran k seconds with
\* the three analog inputs at 0 (the light counter counts every second),
\* sent its k frames, and on_uart_rx has just completed the line.
Running(k, cfg, linha) ==
    /\ ldr_buffer = [i \in 0..(AVG_SAMPLES - 1) |-> 0]
    /\ ntc_buffer = [i \in 0..(AVG_SAMPLES - 1) |-> 0]
    /\ umidade_buffer = [i \in 0..(AVG_SAMPLES - 1) |-> 0]
    /\ avg_idx = (10 * k) % AVG_SAMPLES
    /\ ldr_sum = 0 /\ ntc_sum = 0 /\ umidade_sum = 0
    /\ g_ldr_filtrado = 0 /\ g_ntc_filtrado = 0 /\ g_umidade_filtrada = 0
    /\ g_umidade_setpoint_raw = cfg.umidade
    /\ g_temp_setpoint_raw = cfg.temp
    /\ g_ldr_limiar_raw = cfg.ldr
    /\ g_fotoperiodo_ativo = cfg.foto
    /\ g_meta_luz_segundos = cfg.meta
    /\ g_segundos_de_luz_hoje = k
    /\ g_contador_1s = 0
    /\ g_rx_buffer = [i \in 0..(RX_BUFFER_SIZE - 1) |->
                         IF i < Len(linha) THEN linha[i + 1] ELSE NUL]
    /\ g_rx_idx = 0
    /\ g_comando_pronto = TRUE
    /\ gpio = [p \in {FAN_PIN, PUMP_PIN, LED_PIN} |->
                  IF p = FAN_PIN THEN Bit(FanOn(0, cfg.temp)) ELSE 0]
    /\ pc = "m214"
    /\ ultimo_envio = 1000 * k
    /\ packet = [i \in 0..12 |->
                    IF k = 0 THEN 0
                    ELSE CASE i \in 7..10 -> Byte(k, 8 * (10 - i))
                           [] i = 11 -> (Byte(k, 24) + Byte(k, 16) + Byte(k, 8)
                                         + Byte(k, 0)) % 256
                           [] i = 12 -> 170
                           [] OTHER -> 0]
    /\ pkt_i = IF k = 0 THEN 0 ELSE 11
    /\ led_val = 0
    /\ adc = Levels(0, 0, 0)
    /\ wire = linha \o <<LF>>
    /\ rx_pos = Len(linha) + 1
    /\ now_ms = 1000 * k
    /\ uart_tx = packet
    /\ wdt_kicks = k
    /\ envios = [i \in 1..k |->
                    [decidido |-> 10 * i, enviado |-> 10 * i,
                     frame |-> [j \in 1..13 |->
                        CASE j \in 8..11 -> Byte(i, 8 * (11 - j))
                          [] j = 12 -> (Byte(i, 24) + Byte(i, 16)
                                        + Byte(i, 8) + Byte(i, 0)) % 256
                          [] j = 13 -> 170
                          [] OTHER -> 0]]]
    /\ voltas = 1
    /\ ticks = 10 * k
    /\ hist = [i \in 1..(10 * k) |-> [raw |-> <<0, 0, 0>>, luz |-> TRUE,
                                      seg |-> i \div 10,
                                      filt |-> <<0, 0, 0>>]]
    /\ inicio = [filt |-> <<0, 0, 0>>, seg |-> 0]
    /\ mudancas = 0
    /\ rx_sujo = FALSE
    /\ entrada = [linha |-> <<>>, cfg |-> cfg, seg |-> 0]
    /\ escritores = [v \in DOMAIN Partilhadas |-> {}]

InitCmd == \E k \in SegundosAntes, cfg \in {Defaults, OutraConfig},
              linha \in LinhasCmd : Running(k, cfg, linha)

NextCmd == M214 \/ processa_comando

SpecCmd == InitCmd /\ [][NextCmd]_vars

\* The 13 bytes of the frame built from the values given
Quadro(l, n, u, led, seg) ==
    LET p == [i \in 0..10 |->
                 CASE i = 0 -> Byte(l, 8) [] i = 1 -> Byte(l, 0)
                   [] i = 2 -> Byte(n, 8) [] i = 3 -> Byte(n, 0)
                   [] i = 4 -> Byte(u, 8) [] i = 5 -> Byte(u, 0)
                   [] i = 6 -> led
                   [] OTHER -> Byte(seg, 8 * (10 - i))]
    IN  [i \in 0..12 |-> IF i <= 10 THEN p[i]
                         ELSE IF i = 11 THEN Checksum(p) ELSE 170]

\* The controller in the course of a long run, at the top of a pass of the
\* super loop: the three rings hold the level nivel of their channel (the
\* inputs have been steady for 3.2 s) and the inputs are now at adc, the
\* outputs are those the last pass wrote, the last frame was decided ten
\* timer periods ago when the clock read relogio - 1000, and the timer is
\* at any phase of its period (the passes are not synchronous with it), so
\* that its next interrupt may fall anywhere in the pass.  ticks, hist and
\* envios count from here, the last frame being logged at tick -10.
Snapshot(c) ==
    LET led  == Bit(FotoPendente(c.cfg.foto, c.seg, c.cfg.meta)
                    /\ Escuro(c.nivel[0], c.cfg.ldr))
        luz  == HaLuz(led = 1, tem_sol(c.nivel[0], c.cfg.ldr))
        antes == IF luz /\ c.seg > 0 THEN c.seg - 1 ELSE c.seg
        ultimo == Quadro(c.nivel[0], c.nivel[1], c.nivel[2], led, antes)
    IN
    /\ ldr_buffer = [i \in 0..(AVG_SAMPLES - 1) |-> c.nivel[0]]
    /\ ntc_buffer = [i \in 0..(AVG_SAMPLES - 1) |-> c.nivel[1]]
    /\ umidade_buffer = [i \in 0..(AVG_SAMPLES - 1) |-> c.nivel[2]]
    /\ avg_idx = 0
    /\ ldr_sum = AVG_SAMPLES * c.nivel[0]
    /\ ntc_sum = AVG_SAMPLES * c.nivel[1]
    /\ umidade_sum = AVG_SAMPLES * c.nivel[2]
    /\ g_ldr_filtrado = c.nivel[0]
    /\ g_ntc_filtrado = c.nivel[1]
    /\ g_umidade_filtrada = c.nivel[2]
    /\ g_umidade_setpoint_raw = c.cfg.umidade
    /\ g_temp_setpoint_raw = c.cfg.temp
    /\ g_ldr_limiar_raw = c.cfg.ldr
    /\ g_fotoperiodo_ativo = c.cfg.foto
    /\ g_meta_luz_segundos = c.cfg.meta
    /\ g_segundos_de_luz_hoje = c.seg
    /\ g_contador_1s = c.contador
    /\ g_rx_buffer = [i \in 0..(RX_BUFFER_SIZE - 1) |-> NUL]
    /\ g_rx_idx = 0
    /\ g_comando_pronto = FALSE
    /\ gpio = [p \in {FAN_PIN, PUMP_PIN, LED_PIN} |->
                  CASE p = FAN_PIN -> Bit(FanOn(c.nivel[1], c.cfg.temp))
                    [] p = PUMP_PIN -> Bit(PumpOn(c.nivel[2], c.cfg.umidade))
                    [] OTHER -> led]
    /\ pc = "m214"
    /\ ultimo_envio = Sub32(c.relogio, 1000)
    /\ packet = ultimo
    /\ pkt_i = 11
    /\ led_val = led
    /\ adc = c.adc
    /\ wire = <<>>
    /\ rx_pos = 0
    /\ now_ms = c.relogio
    /\ uart_tx = ultimo
    /\ wdt_kicks = 0
    /\ envios = << [decidido |-> -10, enviado |-> -10,
                    frame |-> [i \in 1..13 |-> ultimo[i - 1]]] >>
    /\ voltas = 1
    /\ ticks = 0
    /\ hist = <<>>
    /\ inicio = [filt |-> <<c.nivel[0], c.nivel[1], c.nivel[2]>>,
                 seg |-> c.seg]
    /\ mudancas = 0
    /\ rx_sujo = FALSE
    /\ entrada = [linha |-> <<>>, cfg |-> c.cfg, seg |-> 0]
    /\ escritores = [v \in DOMAIN Partilhadas |-> {}]

\* The runs of the telemetry specification.  relogio is the clock as a
\* 32-bit pattern: -500 is 2^32 - 500, half a second before the counter
\* wraps; LONG_MAX - 500 is half a second before bit 31 sets.
CenariosTel ==
    { [nivel |-> Levels(1000, 2000, 3000), adc |-> Levels(1000, 2000, 3000),
       seg |-> 90000, contador |-> 0, relogio |-> 90001000,
       cfg |-> [Defaults EXCEPT !.foto = TRUE, !.ldr = 500, !.meta = 100000]],
      [nivel |-> Levels(0, 0, 0), adc |-> Levels(0, 0, 0),
       seg |-> 255, contador |-> 9, relogio |-> 0 - 500,
       cfg |-> Defaults],
      [nivel |-> Levels(255, 255, 255), adc |-> Levels(4095, 4095, 4095),
       seg |-> 16909060, contador |-> 3, relogio |-> LONG_MAX - 500,
       cfg |-> Defaults] }

\* ... and a run from boot, for the first frame
InitTel == \/ \E c \in CenariosTel : Snapshot(c)
           \/ Boot(Defaults) /\ adc = Levels(3200, 2560, 3950) /\ wire = <<>>

SpecTel == InitTel /\ [][NextCtl]_vars

\* ------------------------------------------------------------------------
\* Properties
\* ------------------------------------------------------------------------
\* The raw samples of channel c (1 light, 2 temperature, 3 moisture), one
\* per timer_callback invocation since boot
RawLog(c) == [i \in 1..Len(hist) |-> hist[i].raw[c]]

Published(c) == CASE c = 1 -> g_ldr_filtrado
                  [] c = 2 -> g_ntc_filtrado
                  [] OTHER -> g_umidade_filtrada

RingSum(buffer) == SumSeq([i \in 1..32 |-> buffer[i - 1]])

\* the light counter before invocation i
SegBefore(i) == IF i = 1 THEN inicio.seg ELSE hist[i - 1].seg

\* C1: after any number of timer_callback invocations, each channel's
\* published filtered value is floor(S / 32), S the sum of the last 32 raw
\* samples of the channel (of all of them while there are fewer than 32, the
\* zero history making up the rest); older samples have no influence.
C1_Window ==
    \A c \in 1..3 : Published(c) = SumSeq(LastN(RawLog(c), 32)) \div 32

\* C1 witness: more than 32 invocations, and a sample that has left the
\* window differs from the one that replaced it.
C1_Witness ==
    /\ Len(hist) > 32
    /\ \E c \in 1..3 :
          /\ SumSeq(RawLog(c)) # SumSeq(LastN(RawLog(c), 32))
          /\ RawLog(c)[1] # RawLog(c)[33]
          /\ Published(c) > 0

\* C2: between invocations each running sum is the sum of the 32 entries of
\* its ring, each published value is its running sum >> 5, and avg_idx is in
\* 0..31 and has advanced by one modulo 32 per invocation.
C2_SumInvariant ==
    /\ ldr_sum = RingSum(ldr_buffer)
    /\ ntc_sum = RingSum(ntc_buffer)
    /\ umidade_sum = RingSum(umidade_buffer)
    /\ g_ldr_filtrado = ldr_sum \div 32
    /\ g_ntc_filtrado = ntc_sum \div 32
    /\ g_umidade_filtrada = umidade_sum \div 32
    /\ avg_idx \in 0..31
    /\ avg_idx = ticks % 32

\* C2 witness: the index has wrapped and the ring holds different samples.
C2_Witness ==
    /\ ticks > 32
    /\ avg_idx = 3
    /\ \E i, j \in 0..31 : ldr_buffer[i] # ldr_buffer[j]
    /\ ldr_sum > 0

\* C3: the tick counter is in 0..9 and counts the invocations modulo 10; the
\* light counter moves only on every 10th invocation and then by one; over
\* any 10 consecutive invocations with light present throughout it rises by
\* exactly one.
C3_EveryTenth ==
    /\ g_contador_1s \in 0..9
    /\ g_contador_1s = ticks % 10
    /\ \A i \in 1..Len(hist) :
          /\ hist[i].seg - SegBefore(i) \in {0, 1}
          /\ hist[i].seg # SegBefore(i) => i % 10 = 0
    /\ \A i \in 1..(Len(hist) - 9) :
          (\A j \in i..(i + 9) : hist[j].luz)
              => hist[i + 9].seg = SegBefore(i) + 1

\* C3 witness: ten lit invocations that do not start on a second boundary,
\* after which light was absent on a later boundary.
C3_Witness ==
    /\ Len(hist) >= 30
    /\ \E i \in 2..(Len(hist) - 9) :
          /\ i % 10 = 5
          /\ \A j \in i..(i + 9) : hist[j].luz
          /\ hist[i + 9].seg = SegBefore(i) + 1
    /\ \E i \in 1..Len(hist) : i % 10 = 0 /\ ~hist[i].luz
    /\ g_segundos_de_luz_hoje >= 1

\* C4: an invocation of timer_callback that is the 10th since the last
\* boundary adds one to the light counter if and only if the grow-light pin
\* is on or the filtered light it has just computed is <= the threshold
\* (equality counts as light); any other invocation leaves the counter.
C4_LightCount ==
    [][ticks' = ticks + 1 =>
          g_segundos_de_luz_hoje' =
              IF ticks' % 10 = 0
                 /\ (gpio[LED_PIN] = 1 \/ g_ldr_filtrado' <= g_ldr_limiar_raw)
              THEN g_segundos_de_luz_hoje + 1
              ELSE g_segundos_de_luz_hoje]_vars

\* C4 witness: a second boundary has just counted light although the
\* filtered light is above the threshold, the grow light being on.
C4_Witness ==
    /\ ticks > 0 /\ ticks % 10 = 0 /\ voltas = 0
    /\ g_ldr_filtrado > g_ldr_limiar_raw
    /\ gpio[LED_PIN] = 1
    /\ hist[ticks].seg = SegBefore(ticks) + 1

\* C10: the pump statement of a pass leaves the pump pin on exactly when the
\* filtered moisture it reads is > the moisture setpoint, the fan statement
\* leaves the fan pin on exactly when the filtered temperature it reads is <
\* the temperature setpoint; equality is off and the previous pin level
\* plays no part.
C10_PumpFan ==
    [][/\ (pc = "m218" /\ pc' = "m219") =>
              gpio'[PUMP_PIN] =
                  IF g_umidade_filtrada > g_umidade_setpoint_raw THEN 1 ELSE 0
       /\ (pc = "m219" /\ pc' = "m224") =>
              gpio'[FAN_PIN] =
                  IF g_ntc_filtrado < g_temp_setpoint_raw THEN 1 ELSE 0]_vars

\* C10 witness: the fan statement has just run with the filtered
\* temperature equal to its setpoint and the filtered moisture equal to its
\* own, in a pass no tick has interrupted: both outputs are off, the fan
\* having been on before.
C10_Witness ==
    /\ pc = "m224" /\ voltas = 1 /\ ticks > 0
    /\ g_umidade_filtrada = g_umidade_setpoint_raw
    /\ gpio[PUMP_PIN] = 0
    /\ g_ntc_filtrado < g_temp_setpoint_raw
    /\ gpio[FAN_PIN] = 1

\* The non-empty lines completed by a terminator within the bytes given
RECURSIVE LinesOf(_, _)
LinesOf(bytes, cur) ==
    IF bytes = <<>> THEN {}
    ELSE IF Head(bytes) = LF \/ Head(bytes) = CR
         THEN (IF cur = <<>> THEN {} ELSE {cur}) \cup LinesOf(Tail(bytes), <<>>)
         ELSE LinesOf(Tail(bytes), Append(cur, Head(bytes)))

LinhasRecebidas == LinesOf(SubSeq(wire, 1, rx_pos), <<>>)

\* C5: while g_comando_pronto is set the buffer holds, null-terminated, the
\* bytes of one received non-empty line without its terminator, and
\* on_uart_rx has stored nothing into the buffer while the flag was set.
C5_Handshake ==
    /\ g_comando_pronto =>
          /\ CStr(g_rx_buffer) # <<>>
          /\ CStr(g_rx_buffer) \in LinhasRecebidas
    /\ ~rx_sujo

\* processa_comando has returned from the line entrada.linha
Returned == pc = "m218" /\ entrada.linha # <<>>

SetTexts == {TXT_SET_HUMID, TXT_SET_TEMP, TXT_SET_LDR, TXT_SET_FOTO,
             TXT_SET_META_LUZ}

StartsWith(l, p) == Len(l) >= Len(p) /\ SubSeq(l, 1, Len(p)) = p

AllDigits(t) == t # <<>> /\ \A i \in 1..Len(t) : t[i] \in 48..57

IsNumber(t) == AllDigits(t) \/ (t # <<>> /\ t[1] = 45 /\ AllDigits(Tail(t)))

\* l is exactly one of the six command forms, with a numeric value
FormaValida(l) ==
    \/ l = TXT_RESET_TIMER
    \/ \E p \in SetTexts : StartsWith(l, p) /\ IsNumber(After(l, Len(p)))

\* the configuration is cfg and the light counter is as it was
ConfigIs(cfg) == Config = cfg /\ g_segundos_de_luz_hoje = entrada.seg

\* C6: SET,HUMID,<v>, SET,TEMP,<v>, SET,LDR,<v> with v in 0..65535 set
\* their field to v, SET,META_LUZ,<v> with v in 0..2^32-1 sets the daily
\* goal to v (its decimal text is the text sent); every other configuration
\* field and the light counter are as before.
C6_SetExact ==
    Returned =>
       /\ \A v \in Vals16 :
             /\ entrada.linha = TXT_SET_HUMID \o Dec(v)
                   => ConfigIs([entrada.cfg EXCEPT !.umidade = v])
             /\ entrada.linha = TXT_SET_TEMP \o Dec(v)
                   => ConfigIs([entrada.cfg EXCEPT !.temp = v])
             /\ entrada.linha = TXT_SET_LDR \o Dec(v)
                   => ConfigIs([entrada.cfg EXCEPT !.ldr = v])
       /\ \A t \in Textos32 :
             entrada.linha = TXT_SET_META_LUZ \o t
                 => /\ Dec(g_meta_luz_segundos) = t
                    /\ ConfigIs([entrada.cfg EXCEPT
                                    !.meta = g_meta_luz_segundos])

\* C7: SET,FOTO,<v> leaves the photoperiod flag true exactly when the
\* integer v is 1, for every integer the parser accepts.
C7_FotoIffOne ==
    Returned =>
       \A t \in TextosFoto :
           entrada.linha = TXT_SET_FOTO \o t.txt
               => g_fotoperiodo_ativo = (t.v = 1)

\* C8: RESET,TIMER_LUZ leaves the light counter at 0 whatever it was, and
\* the five configuration fields as they were.
C8_Reset ==
    Returned /\ entrada.linha = TXT_RESET_TIMER =>
        /\ g_segundos_de_luz_hoje = 0
        /\ Config = entrada.cfg

\* C8 witness: the command has been processed with the counter above 0 and
\* a configuration that is not the default.
C8_Witness ==
    /\ Returned
    /\ entrada.linha = TXT_RESET_TIMER
    /\ entrada.seg > 0
    /\ entrada.cfg = OutraConfig
    /\ Config = OutraConfig
    /\ g_segundos_de_luz_hoje = 0

Unchanged == /\ Config = entrada.cfg
             /\ g_segundos_de_luz_hoje = entrada.seg

BufferCleared == \A i \in 0..99 : g_rx_buffer[i] = 0

\* C9: every line that is not exactly one of the six command forms with a
\* numeric value leaves the five configuration fields and the light counter
\* as they were, and all 100 bytes of the buffer are zero on return.
C9_Malformed ==
    Returned /\ ~FormaValida(entrada.linha) => Unchanged /\ BufferCleared

\* The filtered light value and the light counter as they were before the
\* latest timer_callback invocation
PrevLdr == SumSeq(LastN(SubSeq(RawLog(1), 1, ticks - 1), 32)) \div 32

PrevSeg == SegBefore(ticks)

\* No timer interrupt has fallen in the main-loop pass under way
PassUndisturbed == voltas = 1 \/ ticks = 0

LedPolicy(seg, ldr) ==
    IF g_fotoperiodo_ativo /\ seg < g_meta_luz_segundos
       /\ ldr > g_ldr_limiar_raw
    THEN 1 ELSE 0

\* C11 as stated: after the actuator evaluation of every pass the grow
\* light is on exactly when photoperiod is enabled, the light counter is
\* below the goal and the filtered light is above the threshold, wherever
\* the timer interrupt falls.
C11_AsStated ==
    pc = "m233" =>
        gpio[LED_PIN] = LedPolicy(g_segundos_de_luz_hoje, g_ldr_filtrado)

\* C11 amended: after the actuator evaluation of a pass the grow light is on
\* exactly when photoperiod is enabled, the light counter is below the goal
\* and the filtered light is above the threshold, for the values the
\* evaluation read: the current ones when no timer interrupt fell in the pass, else
\* for each variable the value before or after that interrupt.  An
\* evaluation begun with the counter at or above the goal leaves the light
\* off, and with photoperiod disabled the light is never on.
C11_GrowLight ==
    /\ pc = "m233" =>
          IF PassUndisturbed
          THEN gpio[LED_PIN] = LedPolicy(g_segundos_de_luz_hoje, g_ldr_filtrado)
          ELSE \E seg \in {PrevSeg, g_segundos_de_luz_hoje},
                  ldr \in {PrevLdr, g_ldr_filtrado} :
                     gpio[LED_PIN] = LedPolicy(seg, ldr)
    /\ (pc = "m233" /\ ticks > 0 /\ PrevSeg >= g_meta_luz_segundos)
          => gpio[LED_PIN] = 0
    /\ ~g_fotoperiodo_ativo => gpio[LED_PIN] = 0

\* C11 witness: the goal was reached under the grow light (the last counted
\* second was dark outside) and the evaluation that followed has put it out.
C11_Witness ==
    /\ pc = "m233" /\ voltas = 1
    /\ g_fotoperiodo_ativo
    /\ g_segundos_de_luz_hoje = g_meta_luz_segundos
    /\ g_ldr_filtrado > g_ldr_limiar_raw
    /\ hist[ticks].luz /\ hist[ticks].seg = PrevSeg + 1
    /\ gpio[LED_PIN] = 0

\* Big-endian bytes of a 16-bit and of a 32-bit value
BE16(v) == <<v \div 256, v % 256>>

BE32(v) == <<v \div 16777216, (v \div 65536) % 256, (v \div 256) % 256,
             v % 256>>

\* The frame the telemetry format prescribes for the values given
Frame(l, n, u, led, seg) ==
    LET payload == BE16(l) \o BE16(n) \o BE16(u) \o <<led>> \o BE32(seg)
    IN  payload \o <<SumSeq(payload) % 256, 170>>

\* The frames written in the run observed, as indexes of the log
Emitidos == {i \in 1..Len(envios) :
                envios[i].decidido >= 0 /\ envios[i].enviado >= 0}

\* The frame just written, no timer interrupt since it was decided
FreshFrame ==
    /\ pc = "m265" /\ envios # <<>>
    /\ envios[Len(envios)].decidido = ticks
    /\ envios[Len(envios)].enviado = ticks

\* C12: every frame written is 13 bytes, byte 6 is 0 or 1, byte 11 is the
\* sum of bytes 0..10 modulo 256 and byte 12 is 0xAA; a frame built with no
\* timer interrupt in between carries the filtered light, temperature and
\* moisture big-endian in bytes 0-1, 2-3, 4-5, the grow-light pin in byte 6
\* and the light counter big-endian in bytes 7-10; light 1000, temperature
\* 2000, moisture 3000, led 1, seconds 90000 give
\* 03 E8 07 D0 0B B8 01 00 01 5F 90 76 AA.
C12_Frame ==
    /\ \A i \in Emitidos :
          LET f == envios[i].frame
          IN  /\ Len(f) = 13
              /\ \A j \in 1..13 : f[j] \in 0..255
              /\ f[7] \in {0, 1}
              /\ f[12] = SumSeq(SubSeq(f, 1, 11)) % 256
              /\ f[13] = 170
    /\ FreshFrame =>
          /\ envios[Len(envios)].frame =
                 Frame(g_ldr_filtrado, g_ntc_filtrado, g_umidade_filtrada,
                       gpio[LED_PIN], g_segundos_de_luz_hoje)
          /\ \A i \in 0..12 : uart_tx[i] = envios[Len(envios)].frame[i + 1]
    /\ (/\ FreshFrame
        /\ g_ldr_filtrado = 1000 /\ g_ntc_filtrado = 2000
        /\ g_umidade_filtrada = 3000 /\ gpio[LED_PIN] = 1
        /\ g_segundos_de_luz_hoje = 90000)
          => envios[Len(envios)].frame =
                 <<3, 232, 7, 208, 11, 184, 1, 0, 1, 95, 144, 118, 170>>

\* C12 witness: the frame of the example has been written.
C12_Witness ==
    /\ FreshFrame
    /\ wdt_kicks = 1
    /\ g_ldr_filtrado = 1000 /\ g_segundos_de_luz_hoje = 90000
    /\ gpio[LED_PIN] = 1
    /\ uart_tx[0] = 3 /\ uart_tx[10] = 144 /\ uart_tx[11] = 118
    /\ uart_tx[12] = 170

\* Milliseconds of real time from the decision of the last frame (from boot
\* when there is none) to now, counted in timer periods
SinceLastFrame ==
    TIMER_ISR_INTERVAL_MS
        * (ticks - IF envios = <<>> THEN 0 ELSE envios[Len(envios)].decidido)

\* C13: a pass emits a frame exactly when at least 1000 ms have passed since
\* the previous frame was decided (since boot for the first), also while the 32-bit millisecond counter
\* wraps, so that consecutive frames are at least 1000 ms apart; the
\* watchdog is asserted once with each frame written and nowhere else.
C13_Gate ==
    [][/\ (pc = "m233" /\ pc' # "m233") =>
              /\ (pc' = "pkt") = (SinceLastFrame >= 1000)
              /\ pc' = "pkt" => /\ Len(envios') = Len(envios) + 1
                                /\ envios'[Len(envios')].decidido = ticks
              /\ pc' # "pkt" => pc' = "m265" /\ envios' = envios
       /\ \A i \in 2..Len(envios) :
              TIMER_ISR_INTERVAL_MS
                  * (envios[i].decidido - envios[i - 1].decidido) >= 1000
       /\ (pc = "t253" /\ pc' # "t253") =>
              /\ pc' = "m265"
              /\ wdt_kicks' = wdt_kicks + 1
              /\ Cardinality(Emitidos') = Cardinality(Emitidos) + 1
       /\ wdt_kicks' # wdt_kicks => pc = "t253" /\ pc' = "m265"
       /\ wdt_kicks = Cardinality(Emitidos)]_vars

\* C13 witness: two frames have been written, the first decided before the
\* millisecond counter wrapped and the second after, 1000 ms later.
C13_Witness ==
    /\ wdt_kicks = 2
    /\ Len(envios) = 3
    /\ ultimo_envio >= 0 /\ ultimo_envio < 1000
    /\ now_ms >= 0 /\ inicio.seg = 255
    /\ envios[3].decidido = envios[2].decidido + 10

\* C14 as stated: every shared variable other than the command buffer has
\* been changed by at most one context.
C14_SingleWriter ==
    \A v \in DOMAIN escritores \ {"rx_buffer"} :
        Cardinality(escritores[v]) <= 1

\* C14 amended: the filter state, the published values and the sub-second
\* counter are changed only by the timer interrupt, the receive cursor only
\* by the receive interrupt, the configuration and the pins only by the main
\* context; the light counter is changed by the timer interrupt and by the
\* main context, the ready flag by the receive interrupt and by the main
\* context.
C14_Writers ==
    /\ escritores.filtro \subseteq {"timer"}
    /\ escritores.filtrados \subseteq {"timer"}
    /\ escritores.contador \subseteq {"timer"}
    /\ escritores.rx_idx \subseteq {"rx"}
    /\ escritores.config \subseteq {"main"}
    /\ escritores.pinos \subseteq {"main"}
    /\ escritores.segundos \subseteq {"timer", "main"}
    /\ escritores.pronto \subseteq {"rx", "main"}
    /\ escritores.rx_buffer \subseteq {"rx", "main"}

\* C14 witness: the light counter has been raised by the timer interrupt and
\* reset by the parser, the ready flag set by the receive interrupt and
\* cleared by the parser.
C14_Witness ==
    /\ escritores.segundos = {"timer", "main"}
    /\ escritores.pronto = {"rx", "main"}
    /\ escritores.rx_idx = {"rx"}
    /\ escritores.filtro = {"timer"}
    /\ escritores.pinos = {"main"}
    /\ g_segundos_de_luz_hoje = 0 /\ ticks >= 10

\* The complete lines received so far, in order (empty ones left out)
RECURSIVE LineSeq(_, _)
LineSeq(bytes, cur) ==
    IF bytes = <<>> THEN <<>>
    ELSE IF Head(bytes) = LF \/ Head(bytes) = CR
         THEN (IF cur = <<>> THEN <<>> ELSE <<cur>>) \o LineSeq(Tail(bytes), <<>>)
         ELSE LineSeq(Tail(bytes), Append(cur, Head(bytes)))

Recebidas == LineSeq(SubSeq(wire, 1, rx_pos), <<>>)

\* C15: when processa_comando returns the whole buffer is zero and the ready
\* flag is false, and every line the parser is handed is one of the lines
\* received, wherever the receive interrupt falls.
C15_NoStale ==
    [][/\ (pc = "p171" /\ pc' = "m218") =>
              /\ \A i \in 0..99 : g_rx_buffer'[i] = 0
              /\ ~g_comando_pronto'
       /\ (pc = "m214" /\ pc' = "p143") =>
              \E k \in 1..Len(Recebidas) : entrada'.linha = Recebidas[k]]_vars

\* The number a text of decimal digits denotes
RECURSIVE Numero(_)
Numero(t) ==
    IF t = <<>> THEN 0
    ELSE 10 * Numero(SubSeq(t, 1, Len(t) - 1)) + (t[Len(t)] - 48)

\* The configuration the command table prescribes after the valid line l
Efeito(cfg, l) ==
    LET v(p) == Numero(After(l, Len(p)))
    IN  CASE StartsWith(l, TXT_SET_HUMID) -> [cfg EXCEPT !.umidade = v(TXT_SET_HUMID)]
          [] StartsWith(l, TXT_SET_TEMP) -> [cfg EXCEPT !.temp = v(TXT_SET_TEMP)]
          [] StartsWith(l, TXT_SET_LDR) -> [cfg EXCEPT !.ldr = v(TXT_SET_LDR)]
          [] StartsWith(l, TXT_SET_FOTO) -> [cfg EXCEPT !.foto = (v(TXT_SET_FOTO) = 1)]
          [] StartsWith(l, TXT_SET_META_LUZ) -> [cfg EXCEPT !.meta = v(TXT_SET_META_LUZ)]
          [] OTHER -> cfg

RECURSIVE EfeitoDe(_, _)
EfeitoDe(cfg, ls) ==
    IF ls = <<>> THEN cfg ELSE EfeitoDe(Efeito(cfg, Head(ls)), Tail(ls))

\* The three outputs are those the policy gives for the configuration and
\* the filtered values
OutputsFollow ==
    /\ gpio[PUMP_PIN] = (IF g_umidade_filtrada > g_umidade_setpoint_raw
                         THEN 1 ELSE 0)
    /\ gpio[FAN_PIN] = (IF g_ntc_filtrado < g_temp_setpoint_raw THEN 1 ELSE 0)
    /\ gpio[LED_PIN] = LedPolicy(g_segundos_de_luz_hoje, g_ldr_filtrado)

\* C17: at the end of a pass that leaves no command pending, every valid
\* line received so far has taken effect: the configuration is the one the
\* lines prescribe and the outputs written in the pass follow from it,
\* wherever the receive interrupt falls.
C17_InEffect ==
    (/\ pc = "m265" /\ ~g_comando_pronto
     /\ \A k \in 1..Len(Recebidas) : FormaValida(Recebidas[k]))
        => /\ Config = EfeitoDe(Defaults, Recebidas)
           /\ OutputsFollow

\* The filtered values and the light counter as they stood after timer
\* interrupt k of the run (k = 0: at the start)
Held(k) ==
    IF k = 0 THEN inicio ELSE [filt |-> hist[k].filt, seg |-> hist[k].seg]

\* The value a big-endian byte string denotes
RECURSIVE FromBE(_)
FromBE(b) ==
    IF b = <<>> THEN 0
    ELSE 256 * FromBE(SubSeq(b, 1, Len(b) - 1)) + b[Len(b)]

\* C16: each multi-byte field of an emitted frame (filtered light,
\* temperature, moisture in bytes 0-1, 2-3, 4-5 and the light counter in
\* bytes 7-10) is a value its variable held at one instant between the
\* decision to send and the write, wherever the timer interrupt falls in
\* the construction of the frame.
C16_NoTorn ==
    \A i \in Emitidos :
        LET e == envios[i]
            ks == e.decidido..e.enviado
        IN  /\ \A j \in 1..3 :
                  \E k \in ks :
                      FromBE(SubSeq(e.frame, 2 * j - 1, 2 * j))
                          = Held(k).filt[j]
            /\ \E k \in ks : FromBE(SubSeq(e.frame, 8, 11)) = Held(k).seg

\* The pattern p occurs somewhere in the line l
Occurs(l, p) ==
    \E i \in 0..(Len(l) - Len(p)) : \A j \in 1..Len(p) : l[i + j] = p[j]

\* The command table, in its order
Tabela == <<TXT_SET_HUMID, TXT_SET_TEMP, TXT_SET_LDR, TXT_SET_FOTO,
            TXT_SET_META_LUZ, TXT_RESET_TIMER>>

\* The row of the first pattern of the table that occurs in l, 0 for none
Primeiro(l) ==
    LET hits == {k \in 1..6 : Occurs(l, Tabela[k])}
    IN  IF hits = {} THEN 0 ELSE CHOOSE k \in hits : \A h \in hits : k <= h

\* The text of l after its last comma
RECURSIVE UltimoCampo(_)
UltimoCampo(l) ==
    IF l = <<>> \/ l[Len(l)] = COMMA THEN <<>>
    ELSE UltimoCampo(SubSeq(l, 1, Len(l) - 1)) \o <<l[Len(l)]>>

\* The decimal digits t starts with
RECURSIVE Digitos(_)
Digitos(t) ==
    IF t = <<>> \/ t[1] \notin 48..57 THEN <<>>
    ELSE <<t[1]>> \o Digitos(Tail(t))

\* t reads as an unsigned number of at most nine digits, or as no number
Legivel(t) ==
    /\ t = <<>> \/ (t[1] \notin {43, 45} /\ ~IsSpace(t[1]))
    /\ Len(Digitos(t)) <= 9

\* The rows' fields now, and as they were when the parser was entered
Campos == <<g_umidade_setpoint_raw, g_temp_setpoint_raw, g_ldr_limiar_raw,
            g_fotoperiodo_ativo, g_meta_luz_segundos,
            g_segundos_de_luz_hoje>>

CamposAntes == <<entrada.cfg.umidade, entrada.cfg.temp, entrada.cfg.ldr,
                 entrada.cfg.foto, entrada.cfg.meta, entrada.seg>>

\* C18: the six patterns are tried in table order and only the first one
\* that occurs anywhere in the line takes effect: every field but that
\* row's is as it was, the row's field is the number read from the text
\* after the last comma of the line (0 when it does not start with a
\* digit), and RESET,TIMER_LUZ zeroes the counter only when no SET pattern
\* occurs.
C18_FirstMatch ==
    Returned =>
        LET l == entrada.linha
            k == Primeiro(l)
            t == UltimoCampo(l)
        IN  /\ \A j \in 1..6 : j # k => Campos[j] = CamposAntes[j]
            /\ (k \in 1..3 /\ Legivel(t) /\ Numero(Digitos(t)) < 65536)
                   => Campos[k] = Numero(Digitos(t))
            /\ (k = 4 /\ Legivel(t) /\ Numero(Digitos(t)) < 65536)
                   => g_fotoperiodo_ativo = (Numero(Digitos(t)) = 1)
            /\ (k = 5 /\ Legivel(t))
                   => g_meta_luz_segundos = Numero(Digitos(t))
            /\ k = 6 => g_segundos_de_luz_hoje = 0

\* C18 witness: the parser has returned from SET,TEMP,SET,HUMID,5 entered
\* with a moisture setpoint other than 5: the moisture setpoint is 5 and
\* the temperature setpoint is as it was.
C18_Witness ==
    /\ Returned
    /\ entrada.linha = TXT_SET_TEMP \o TXT_SET_HUMID \o Dec(5)
    /\ entrada.cfg.umidade # 5
    /\ g_umidade_setpoint_raw = 5
    /\ g_temp_setpoint_raw = entrada.cfg.temp

\* A step of the timer callback that ends a second
Boundary == ticks' = ticks + 1 /\ g_contador_1s = 9 /\ g_contador_1s' = 0

\* A step of the parser's branch for RESET,TIMER_LUZ
ResetStep == pc = "p168" /\ pc' = "p171"

\* C19 as stated: the light counter never decreases, and a step that
\* changes it is a +1 of the timer callback at the end of a second or the
\* reset to 0 of RESET,TIMER_LUZ.
C19_AsStated ==
    [][/\ g_segundos_de_luz_hoje' >= g_segundos_de_luz_hoje
       /\ g_segundos_de_luz_hoje' # g_segundos_de_luz_hoje =>
              \/ Boundary /\ g_segundos_de_luz_hoje'
                                = g_segundos_de_luz_hoje + 1
              \/ ResetStep /\ g_segundos_de_luz_hoje' = 0]_vars

\* C19 amended: the light counter decreases only in the reset of
\* RESET,TIMER_LUZ; a step that changes it is a +1 of the timer callback at
\* the end of a second or that reset, which always leaves 0; and the
\* callback adds the second whenever the lamp is on or the filtered light
\* is at or below the threshold, also with the counter at or above the
\* daily goal.
C19_Counter ==
    [][/\ g_segundos_de_luz_hoje' < g_segundos_de_luz_hoje => ResetStep
       /\ g_segundos_de_luz_hoje' # g_segundos_de_luz_hoje =>
              \/ Boundary /\ g_segundos_de_luz_hoje'
                                = g_segundos_de_luz_hoje + 1
              \/ ResetStep /\ g_segundos_de_luz_hoje' = 0
       /\ ResetStep => g_segundos_de_luz_hoje' = 0
       /\ (/\ Boundary
           /\ gpio[LED_PIN] = 1 \/ g_ldr_filtrado' <= g_ldr_limiar_raw)
              => g_segundos_de_luz_hoje' = g_segundos_de_luz_hoje + 1]_vars

\* C19 witness: the counter has been reset by the command after it had
\* counted, and has since passed the daily goal.
C19_Witness ==
    /\ escritores.segundos = {"timer", "main"}
    /\ wire = TXT_RESET_TIMER \o <<LF>>
    /\ rx_pos = Len(wire) /\ ~g_comando_pronto /\ pc = "m265"
    /\ ticks = 20
    /\ hist[10].seg = 1 /\ hist[19].seg = 0
    /\ g_segundos_de_luz_hoje = 1
    /\ g_segundos_de_luz_hoje >= g_meta_luz_segundos

\* The first 99 characters of the line l
Primeiros99(l) == SubSeq(l, 1, Min(RX_BUFFER_SIZE - 1, Len(l)))

\* C20: the write cursor g_rx_idx is always in 0..99; a data byte is stored
\* at the cursor, which is then below 99, and is dropped with the cursor at
\* 99; the terminator of a non-empty line writes NUL at the cursor, at most
\* 99, and a terminator with the cursor at 0 changes neither the flag nor
\* the buffer; the line handed to the parser is the first 99 characters of
\* the line received.
C20_Bound ==
    [][/\ g_rx_idx \in 0..(RX_BUFFER_SIZE - 1)
       /\ g_rx_idx' \in 0..(RX_BUFFER_SIZE - 1)
       /\ DOMAIN g_rx_buffer' = 0..(RX_BUFFER_SIZE - 1)
       /\ rx_pos' = rx_pos + 1 =>
             LET c == wire[rx_pos']
                 fim == c = LF \/ c = CR
             IN  /\ (fim /\ g_rx_idx = 0) =>
                        /\ g_comando_pronto' = g_comando_pronto
                        /\ g_rx_buffer' = g_rx_buffer
                        /\ g_rx_idx' = 0
                 /\ (fim /\ g_rx_idx > 0) =>
                        /\ g_rx_buffer' = [g_rx_buffer EXCEPT ![g_rx_idx] = 0]
                        /\ g_comando_pronto'
                        /\ g_rx_idx' = 0
                 /\ (~fim /\ g_rx_idx < 99) =>
                        /\ g_rx_buffer' = [g_rx_buffer EXCEPT ![g_rx_idx] = c]
                        /\ g_rx_idx' = g_rx_idx + 1
                        /\ g_comando_pronto' = g_comando_pronto
                 /\ (~fim /\ g_rx_idx >= 99) =>
                        /\ g_rx_buffer' = g_rx_buffer
                        /\ g_rx_idx' = g_rx_idx
                        /\ g_comando_pronto' = g_comando_pronto
       /\ (pc = "m214" /\ pc' = "p143") =>
             \E k \in 1..Len(Recebidas) :
                 entrada'.linha = Primeiros99(Recebidas[k])]_vars

\* C20 witness: a line of 100 characters has been received, its last
\* character dropped with the cursor at 99, and the parser has returned
\* from its first 99 characters.
C20_Witness ==
    /\ pc = "m218"
    /\ Len(Recebidas) = 1 /\ Len(Recebidas[1]) = 100
    /\ Len(entrada.linha) = 99
    /\ entrada.linha = SubSeq(wire, 1, 99)
    /\ g_rx_idx = 0 /\ ~g_comando_pronto
    /\ g_umidade_setpoint_raw = 0

====
